---------------------------- MODULE Spec2Model ----------------------------
(***************************************************************************)
(* Techsen: live vocal pitch tracking quantised to a raaga, driving a      *)
(* gliding flute oscillator over a tanpura drone.                          *)
(*                                                                         *)
(* Sources: src/Techsen_gen3_CLI.py (the engine) and src/server.py (the    *)
(* HTTP front end).                                                        *)
(*                                                                         *)
(* Numbers.  Notes are IEEE-754 doubles of the form n or n +/- 0.2.  A     *)
(* double x is kept as the pair [k, d] with                                *)
(*        x = k/5 + d * eps,      eps = 2^-55 / 5,                         *)
(* k the exact value in fifths of a semitone and d the accumulated         *)
(* rounding error, so that the comparisons of lines 179 and 186 and the    *)
(* truncation of line 192 see the same bits as the code.  Frequencies are  *)
(* kept symbolically (real arithmetic): a note's frequency is the point    *)
(* tonic * 2^(note/12), and a ramped frequency is the chain of linspace    *)
(* steps that produced it.                                                 *)
(***************************************************************************)
EXTENDS Integers, Sequences, FiniteSets, TLC

\* ------------------------------------------------------------------------
\* CONFIG (src/Techsen_gen3_CLI.py lines 10-12, 52-55)
\* ------------------------------------------------------------------------
SAMPLE_RATE == 44100
BUFFER_SIZE == 1024
SMOOTH_WINDOW == 6
HOLD_THRESHOLD == 4
\* BASE_MEEND_TIME = 0.08 s per semitone, in samples: 0.08 * 44100 = 3528
MEEND_SAMPLES_PER_SEMITONE == (8 * SAMPLE_RATE) \div 100
\* detect_reference_sa keeps an estimate only if pitch > 50 (line 85)
MIN_VOICED_HZ == 50
\* the octave-jump guard of line 179, in semitones
OCTAVE_JUMP == 12

\* Python's None and a present value, as sequences of length 0 and 1.
None == <<>>
Some(x) == <<x>>
Val(o) == o[1]

Abs(i) == IF i < 0 THEN -i ELSE i
Sign(i) == IF i > 0 THEN 1 ELSE IF i < 0 THEN -1 ELSE 0
Max(a, b) == IF a >= b THEN a ELSE b
Min(a, b) == IF a <= b THEN a ELSE b

RECURSIVE Pow2(_)
Pow2(n) == IF n <= 0 THEN 1 ELSE 2 * Pow2(n - 1)

\* ------------------------------------------------------------------------
\* IEEE-754 double arithmetic on values k/5 + d*eps (round to nearest even)
\* ------------------------------------------------------------------------
F(k, d) == [k |-> k, d |-> d]
FInt(n) == F(5 * n, 0)
FNeg(x) == F(-x.k, -x.d)
FIsNeg(x) == x.k < 0 \/ (x.k = 0 /\ x.d < 0)
FAbs(x) == IF FIsNeg(x) THEN FNeg(x) ELSE x
\* x > y on exact values: the error terms are far smaller than a fifth.
FGt(x, y) == x.k > y.k \/ (x.k = y.k /\ x.d > y.d)

\* 2^n mod 5
TwoPowMod5(n) == CASE n % 4 = 0 -> 1 [] n % 4 = 1 -> 2 [] n % 4 = 2 -> 4 [] OTHER -> 3

\* lg such that the binade of k/5 + d*eps (k > 0) is [2^(lg-3), 2^(lg-2)):
\* one ulp there is 2^(lg-55) = 5 * 2^lg * eps.
RECURSIVE BinadeLg(_, _)
BinadeLg(k8, lg) == IF 5 * Pow2(lg + 1) <= k8 THEN BinadeLg(k8, lg + 1) ELSE lg
Binade(k, d) ==
    LET lg == BinadeLg(8 * k, 0)
    IN  IF 8 * k = 5 * Pow2(lg) /\ d < 0 /\ lg > 0 THEN lg - 1 ELSE lg

\* The double nearest to the exact value k/5 + d*eps, k > 0.
RoundPos(k, d) ==
    LET lg    == Binade(k, d)
        P     == Pow2(lg)
        ulp   == 5 * P
        r     == ((k % 5) * TwoPowMod5(55 - lg)) % 5
        rho0  == P * r + d
        shift == rho0 \div ulp
        rho   == rho0 % ulp
        qodd  == (r + shift) % 2 = 1
        up    == 2 * rho > ulp \/ (2 * rho = ulp /\ qodd)
    IN  IF rho = 0 THEN F(k, d)
        ELSE IF up THEN F(k, d + ulp - rho) ELSE F(k, d - rho)

FRound(x) ==
    IF x.k = 0 THEN x
    ELSE IF x.k < 0 THEN FNeg(RoundPos(-x.k, -x.d))
    ELSE RoundPos(x.k, x.d)

FAdd(x, y) == FRound(F(x.k + y.k, x.d + y.d))
FSub(x, y) == FRound(F(x.k - y.k, x.d - y.d))
\* the double 0.2 = 0.2 + 2^-54/5
F02 == F(1, 2)
\* trend * 0.2 with trend in {-1.0, +1.0}: exact
FBias(trend) == F(trend, 2 * trend)


\* ------------------------------------------------------------------------
\* Scale model
\* ------------------------------------------------------------------------
\* The swara table of swara_to_semitone.  The source marks the lower octave
\* with a down arrow and the upper with an up arrow; here "_lo" and "_hi".
SwaraMapping ==
    ("Sa" :> 0) @@ ("komal Re" :> 1) @@ ("Re" :> 2) @@ ("komal Ga" :> 3) @@
    ("Ga" :> 4) @@ ("Ma" :> 5) @@ ("Tivra Ma" :> 6) @@ ("Pa" :> 7) @@
    ("komal Dha" :> 8) @@ ("Dha" :> 9) @@ ("komal Ni" :> 10) @@ ("Ni" :> 11) @@
    ("Sa'" :> 12) @@
    ("Sa_lo" :> -12) @@ ("komal Re_lo" :> -11) @@ ("Re_lo" :> -10) @@
    ("komal Ga_lo" :> -9) @@ ("Ga_lo" :> -8) @@ ("Ma_lo" :> -7) @@
    ("Tivra Ma_lo" :> -6) @@ ("Pa_lo" :> -5) @@ ("komal Dha_lo" :> -4) @@
    ("Dha_lo" :> -3) @@ ("komal Ni_lo" :> -2) @@ ("Ni_lo" :> -1) @@
    ("Sa_hi" :> 12) @@ ("komal Re_hi" :> 13) @@ ("Re_hi" :> 14) @@
    ("komal Ga_hi" :> 15) @@ ("Ga_hi" :> 16) @@ ("Ma_hi" :> 17) @@
    ("Tivra Ma_hi" :> 18) @@ ("Pa_hi" :> 19) @@ ("komal Dha_hi" :> 20) @@
    ("Dha_hi" :> 21) @@ ("komal Ni_hi" :> 22) @@ ("Ni_hi" :> 23) @@
    ("Sa'_hi" :> 24)

\* mapping.get(swara, 0)
swara_to_semitone(swara) ==
    IF swara \in DOMAIN SwaraMapping THEN SwaraMapping[swara] ELSE 0

\* [swara_to_semitone(s) for s in swaras]
Semitones(swaras) == [i \in 1..Len(swaras) |-> swara_to_semitone(swaras[i])]

\* The base raagas, RAAGA as the module leaves it after import.
BaseRaagas ==
    ("bhairav"  :> Semitones(<<"Sa", "komal Re", "Ga", "Ma", "Pa", "komal Dha", "Ni", "Sa'">>)) @@
    ("bhairavi" :> Semitones(<<"Sa", "komal Re", "komal Ga", "Ma", "Pa", "komal Dha", "komal Ni", "Sa'">>)) @@
    ("bhupali"  :> Semitones(<<"Sa", "Re", "Ga", "Pa", "Dha", "Sa'">>)) @@
    ("malkauns" :> Semitones(<<"Sa", "komal Ga", "Ma", "komal Dha", "komal Ni", "Sa'">>)) @@
    ("asavari"  :> Semitones(<<"Sa", "Re", "komal Ga", "Ma", "Pa", "komal Dha", "komal Ni", "Sa'">>))

\* str.lower() on the names the model uses.
Lower(name) ==
    CASE name = "Bhupali" -> "bhupali"
      [] name = "Durga"   -> "durga"
      [] name = "YAMAN"   -> "yaman"
      [] OTHER            -> name

\* min(valid, key=lambda x: abs(x - target)): the first element of the list
\* at minimal distance.
RECURSIVE MinByDistance(_, _, _, _)
MinByDistance(valid, target, i, best) ==
    IF i > Len(valid) THEN best
    ELSE MinByDistance(valid, target, i + 1,
            IF Abs(valid[i] - target) < Abs(best - target) THEN valid[i] ELSE best)

\* snap_to_raaga raises KeyError for an unregistered CURRENT_RAAGA (also
\* NameError while CURRENT_RAAGA is unset) and ValueError (min of an empty
\* list) for a raaga without offsets.
SnapRaises(raagas, current) ==
    \/ current = None
    \/ Val(current) \notin DOMAIN raagas
    \/ raagas[Val(current)] = <<>>

\* nearest = min(valid, ...); return 12 * (semitone // 12) + nearest
SnapValue(valid, semitone) ==
    12 * (semitone \div 12) + MinByDistance(valid, semitone % 12, 2, valid[1])

snap_to_raaga(raagas, current, semitone) == SnapValue(raagas[Val(current)], semitone)

\* ------------------------------------------------------------------------
\* Note tracker helpers
\* ------------------------------------------------------------------------
\* An input block's pitch estimate: Silence for a non-positive estimate,
\* otherwise the estimate's distance from the tonic in cents, so that
\* 12 * log2(pitch / REFERENCE_SA) = cents / 100.
Silence == None
Voiced(cents) == Some(cents)

\* Variant of the guard of line 162 that forgets the missing tonic.
SkippedOnlySilence(p, ref) == p = Silence

\* line 162: if pitch <= 0 or REFERENCE_SA is None: return
Skipped(p, ref) == p = Silence \/ ref = None

\* int(round(x)) for x = num/den: Python rounds halves to the even integer.
RoundHalfEven(num, den) ==
    LET q == num \div den
        r == num % den
    IN  IF 2 * r < den THEN q
        ELSE IF 2 * r > den THEN q + 1
        ELSE IF q % 2 = 0 THEN q ELSE q + 1

\* sorted(seq), by insertion
RECURSIVE InsertSorted(_, _)
InsertSorted(s, x) ==
    IF s = <<>> THEN <<x>>
    ELSE IF x <= Head(s) THEN <<x>> \o s
    ELSE <<Head(s)>> \o InsertSorted(Tail(s), x)
RECURSIVE Sorted(_)
Sorted(s) == IF s = <<>> THEN <<>> ELSE InsertSorted(Sorted(Tail(s)), Head(s))

\* Twice np.median(seq): the middle element, or the mean of the two middle
\* elements of an even-length sequence.
Median2(seq) ==
    LET s == Sorted(seq)
        n == Len(s)
    IN  IF n % 2 = 1 THEN 2 * s[(n + 1) \div 2]
        ELSE s[n \div 2] + s[n \div 2 + 1]

\* Variant of line 170 that rounds the median half up instead of int().
IntOfHalvesUp(twice) == (twice + 1) \div 2

\* int(x) for x = twice/2: truncation toward zero
IntOfHalves(twice) == IF twice >= 0 THEN twice \div 2 ELSE -((-twice) \div 2)

\* int(np.median(pitch_buffer))
MedianNote(buf) == IntOfHalves(Median2(buf))

\* np.diff and its sum; np.sign(np.mean(np.diff(buf))) is the sign of the sum.
RECURSIVE SumDiff(_, _)
SumDiff(buf, i) ==
    IF i >= Len(buf) THEN 0 ELSE (buf[i + 1] - buf[i]) + SumDiff(buf, i + 1)

Trend(buf) == IF Len(buf) >= 3 THEN Sign(SumDiff(buf, 1)) ELSE 0

\* deque(maxlen=SMOOTH_WINDOW).append
DequeAppend(buf, x) ==
    IF Len(buf) >= SMOOTH_WINDOW THEN Tail(buf) \o <<x>> ELSE buf \o <<x>>

\* median_note after line 184: the micro slide is added to the candidate.
Candidate(median, trend, last) ==
    IF trend # 0 /\ last # None THEN FAdd(FInt(median), FBias(trend))
    ELSE FInt(median)

\* Variant of line 179 without abs(): only upward jumps are caught.
OctaveJumpUpOnly(median, last) ==
    last # None /\ FGt(FSub(FInt(median), Val(last)), FInt(OCTAVE_JUMP))

\* abs(median_note - last_note) > 12 (line 179), on the unbiased median
OctaveJump(median, last) ==
    last # None /\ FGt(FAbs(FSub(FInt(median), Val(last))), FInt(OCTAVE_JUMP))

\* Variant of line 186 without the `last_note is None or` disjunct.
MovedNoFirst(cand, last) ==
    last # None /\ FGt(FAbs(FSub(cand, Val(last))), F02)

\* last_note is None or abs(median_note - last_note) > 0.2 (line 186)
Moved(cand, last) ==
    last = None \/ FGt(FAbs(FSub(cand, Val(last))), F02)

\* interval = abs(median_note - (last_note if last_note else 0))
Interval(cand, last) ==
    IF last = None \/ Val(last) = FInt(0) THEN FAbs(cand)
    ELSE FAbs(FSub(cand, Val(last)))

\* max(int(BASE_MEEND_TIME * max(1, interval) * SAMPLE_RATE), 1).  The exact
\* product is 3528 * interval; int() truncates, and when the double interval
\* lies just below an integer k >= 2 the truncation yields 3528 * k - 1
\* (checked against the doubles for every interval below 23 semitones; the
\* octave-jump guard keeps intervals below 12.5 once a last note exists).
GlideSamples(interval) ==
    IF interval.k < 5 \/ (interval.k = 5 /\ interval.d < 0)
    THEN MEEND_SAMPLES_PER_SEMITONE
    ELSE IF interval.k % 5 = 0 /\ interval.d < 0
         THEN Max(MEEND_SAMPLES_PER_SEMITONE * (interval.k \div 5) - 1, 1)
         ELSE Max((MEEND_SAMPLES_PER_SEMITONE * interval.k) \div 5, 1)

\* ------------------------------------------------------------------------
\* Frequencies
\* ------------------------------------------------------------------------
\* A point of the frequency axis: 0.0 Hz, or REFERENCE_SA * 2^(note/12).
ZeroHz == [z |-> TRUE, k |-> 0, d |-> 0]
NoteHz(note) == [z |-> FALSE, k |-> note.k, d |-> note.d]

\* A frequency the oscillator holds: a start point followed by the ramps
\* applied to it.  <<[to |-> p, div |-> <<>>]>> is the point p itself; a later
\* segment [to |-> t, div |-> <<s1, .., sn>>] moves the value v before it to
\* t - (t - v) / (s1 * .. * sn).
At(point) == <<[to |-> point, div |-> <<>>]>>

\* The frequency a ramp toward the point T started from, and the factors
\* that have divided its gap since: T - v = (T - RampBase(v, T)) / product.
RampBase(v, T) ==
    IF Len(v) > 1 /\ v[Len(v)].to = T THEN SubSeq(v, 1, Len(v) - 1) ELSE v
RampDivs(v, T) ==
    IF Len(v) > 1 /\ v[Len(v)].to = T THEN v[Len(v)].div ELSE <<>>

\* The frequencies are floating-point numbers (np.float64 or np.float32): a
\* ramp whose gap to the target has shrunk below half the spacing of the
\* type's values next to the target ends on the target itself.  Gaps are measured by their base-2 logarithm, in
\* LgUnit-ths of a bit, on frequencies in units of 2^-16 Hz.
LgUnit == 256
LgUnitBits == 8
MantissaBits == 14
DoubleBits == 53
SingleBits == 24
\* a Python float (0.0 of lines 115-116): a double that NumPy >= 2 lets take
\* the type of the other operand
PythonFloat == 0

\* The type of freq = REFERENCE_SA * (2 ** (median_note / 12)) of line 189,
\* by the bits of its significand.  REFERENCE_SA is the np.float32 np.median
\* returns for the detector's np.float32 estimates.  NumPy 1.x promotes its
\* product with a Python float to np.float64; NumPy >= 2 keeps np.float32
\* when median_note is the int of line 170 and yields np.float64 when line
\* 184 has made it an np.float64.  The repository pins no version.
TargetBits(np2, tgt) ==
    IF tgt.z THEN PythonFloat
    ELSE IF np2 /\ tgt.k % 5 = 0 /\ tgt.d = 0 THEN SingleBits
    ELSE DoubleBits

\* The type np.linspace(current_freq, target_freq, ..) computes in (line
\* 126): np.float64 under NumPy 1.x; under NumPy >= 2 the wider of the two,
\* a Python float counting for nothing beside a NumPy scalar.
RampBits(np2, cur_bits, tgt_bits) ==
    IF ~np2 \/ Max(cur_bits, tgt_bits) = PythonFloat THEN DoubleBits
    ELSE Max(cur_bits, tgt_bits)
\* fixed-point fractions of 2 ** (note / 12) carry FracBits bits
FracBits == 24
HalfFracBits == 12
HzBits == 16

\* floor(log2(n)) of an integer n >= 1
RECURSIVE FloorLg(_)
FloorLg(n) == IF n < 2 THEN 0 ELSE 1 + FloorLg(n \div 2)

MantissaUnit == Pow2(MantissaBits)
FracUnit == Pow2(FracBits)
HalfFracUnit == Pow2(HalfFracBits)

\* the next i bits of log2 of the mantissa m (m / 2^14 in [1, 2)), by squaring
RECURSIVE LgFrac(_, _)
LgFrac(m, i) ==
    IF i = 0 THEN 0
    ELSE LET sq == (m * m) \div MantissaUnit
         IN  IF sq >= 2 * MantissaUnit
             THEN Pow2(i - 1) + LgFrac(sq \div 2, i - 1)
             ELSE LgFrac(sq, i - 1)

\* floor(LgUnit * log2(n)) of an integer n >= 1
Lg(n) ==
    LET e == FloorLg(n)
        m == IF e >= MantissaBits THEN n \div Pow2(e - MantissaBits)
             ELSE n * Pow2(MantissaBits - e)
    IN  e * LgUnit + LgFrac(m, LgUnitBits)

\* floor(x * n / d), computed without leaving 32 bits
MulDiv(x, n, d) == (x \div d) * n + ((x % d) * n) \div d

\* floor(a * b / 2^24) of two fractions below 2^26, by halves of 12 bits
MulFrac(a, b) ==
    LET h  == HalfFracUnit
        ah == a \div h
        al == a % h
        bh == b \div h
        bl == b % h
    IN  ah * bh + (ah * bl + al * bh + (al * bl) \div h) \div h

\* 2^(2^j / 60) * 2^24 for j = 0 .. 5, rounded
SixtiethRoots == <<16972158, 17169365, 17570680, 18401670, 20183411, 24281149>>

\* 2^(r / 60) * 2^24 for r in 0 .. 59, multiplying the roots of the bits of r
RECURSIVE Exp60(_, _)
Exp60(r, j) ==
    IF j > Len(SixtiethRoots) THEN FracUnit
    ELSE IF (r \div Pow2(j - 1)) % 2 = 1
         THEN MulFrac(Exp60(r, j + 1), SixtiethRoots[j])
         ELSE Exp60(r, j + 1)

\* 2^(r / 60) * 2^24 for every r
Exp60Of == [r \in 0..59 |-> Exp60(r, 1)]

\* REFERENCE_SA * 2^(note / 12) in units of 2^-16 Hz, to within one part in
\* a million; sa is twice the tonic and the note is point.k / 5 semitones
Hz16(sa, point) ==
    IF point.z \/ sa = None THEN 0
    ELSE LET q == point.k \div 60
             v == MulDiv(Exp60Of[point.k % 60], Val(sa), 2 * (FracUnit \div Pow2(HzBits)))
         IN  IF q >= 0 THEN v * Pow2(q) ELSE v \div Pow2(0 - q)

\* gap / (d1 * .. * dn), toward zero
RECURSIVE DivAll(_, _)
DivAll(gap, divs) ==
    IF divs = <<>> THEN gap ELSE DivAll(gap \div Head(divs), Tail(divs))

\* the value of a chain in units of 2^-16 Hz
RECURSIVE ChainHz16(_, _)
ChainHz16(sa, v) ==
    IF Len(v) = 1 THEN Hz16(sa, v[1].to)
    ELSE LET t    == Hz16(sa, v[Len(v)].to)
             from == ChainHz16(sa, SubSeq(v, 1, Len(v) - 1))
         IN  IF from <= t THEN t - DivAll(t - from, v[Len(v)].div)
             ELSE t + DivAll(from - t, v[Len(v)].div)

RECURSIVE SumLg(_)
SumLg(divs) == IF divs = <<>> THEN 0 ELSE Lg(Head(divs)) + SumLg(Tail(divs))

IsPowerOfTwo(n) == n >= 1 /\ Pow2(FloorLg(n)) = n

\* The binades (floor(log2) of a frequency in units of 2^-16 Hz) whose
\* spacing the doubles have between tgt and the side the ramp comes from.  A
\* target that is a power of two (a tonic that is one, an octave of it) has
\* the doubles of the binade under it just below it; for any other target
\* within Hz16's error of a power of two the binade is the one or the other.
SpacingLgs(sa, tgt, below) ==
    LET h   == Hz16(sa, tgt)
        err == h \div Pow2(FracBits - 4) + 1
    IN  IF sa # None /\ IsPowerOfTwo(Val(sa)) /\ tgt.k % 60 = 0 /\ tgt.d = 0
        THEN {IF below THEN FloorLg(h) - 1 ELSE FloorLg(h)}
        ELSE {FloorLg(h - err), FloorLg(h + err)}

\* log2 of the gap the ramp has left before this block,
\* |tgt - base| / divs, over half the spacing 2^lg of the doubles at tgt, in
\* LgUnit-ths of a bit
GapBefore(sa, cur, tgt, lg, bits) ==
    LET gap0 == Abs(Hz16(sa, tgt) - ChainHz16(sa, RampBase(cur, tgt)))
    IN  IF gap0 = 0 THEN 0 - bits * LgUnit
        ELSE Lg(gap0) - SumLg(RampDivs(cur, tgt)) - (lg - bits) * LgUnit

\* How far the gap left after this block, |tgt - base| / (divs * step), is
\* above half the spacing 2^lg of the doubles at tgt, in LgUnit-ths of a
\* bit; negative when it is below
ReachMargin(sa, cur, tgt, step, lg, bits) ==
    GapBefore(sa, cur, tgt, lg, bits) - Lg(step)

\* The margin within which the last bits of the doubles decide: those of
\* REFERENCE_SA * 2 ** (median_note / 12), which pow yields, and of the gap,
\* rounded after every block (half a spacing is a tie, rounded to even).
\* A gap of fewer than GridBits bits of spacings has been rounded by up to
\* half of itself.
LgSlack == 64
GridBits == 4
SlackAt(before) == IF before >= GridBits * LgUnit THEN LgSlack ELSE LgSlack + LgUnit

\* the chain of a ramp that is still short of tgt after a block of step samples
ShortOf(cur, tgt, step) ==
    LET last == cur[Len(cur)]
    IN  IF Len(cur) > 1 /\ last.to = tgt
        THEN [cur EXCEPT ![Len(cur)].div = InsertSorted(last.div, step)]
        ELSE Append(cur, [to |-> tgt, div |-> <<step>>])

\* Variant of line 126 that ramps from rest: np.linspace(0.0, target_freq, ..).
RampEndFromRest(sa, cur, tgt, step, bits) ==
    IF tgt = ZeroHz THEN {At(ZeroHz)}
    ELSE {<<[to |-> ZeroHz, div |-> <<>>], [to |-> tgt, div |-> <<step>>]>>}

\* np.linspace(cur, tgt, step, endpoint=False)[-1]
\*   = cur + (tgt - cur) * (step - 1) / step = tgt - (tgt - cur) / step,
\* rounded to the ramp's type, of bits bits: the values line 126 can yield.
\* Well below half a spacing from tgt the value is tgt, well above it is
\* short of tgt, and within the slack of half a spacing it is the one or
\* the other.
RampEnd(sa, cur, tgt, step, bits) ==
    LET below == ChainHz16(sa, RampBase(cur, tgt)) < Hz16(sa, tgt)
        lgs   == SpacingLgs(sa, tgt, below)
    IN  IF step = 1 \/ cur = At(tgt) THEN {cur}
        ELSE (IF \E lg \in lgs : ReachMargin(sa, cur, tgt, step, lg, bits)
                                    < SlackAt(GapBefore(sa, cur, tgt, lg, bits))
              THEN {At(tgt)} ELSE {})
             \cup
             (IF \E lg \in lgs : ReachMargin(sa, cur, tgt, step, lg, bits)
                                    > 0 - SlackAt(GapBefore(sa, cur, tgt, lg, bits))
              THEN {ShortOf(cur, tgt, step)} ELSE {})

\* ------------------------------------------------------------------------
\* Bounds of the model
\* ------------------------------------------------------------------------
\* input blocks the transport delivers in the whole-program specification
MaxBlocks == 8
\* both streams run at one block per BUFFER_SIZE / SAMPLE_RATE seconds: how
\* many blocks one callback may be ahead of the other
MaxSkew == 1
\* blocks read during the calibration window in the whole-program specification
MaxCalibBlocks == 2

\* ------------------------------------------------------------------------
\* State
\* ------------------------------------------------------------------------
VARIABLES
    RAAGA,              \* name -> list of semitone offsets
    REFERENCE_SA,       \* None, or Some(twice the tonic in Hz)
    CURRENT_RAAGA,      \* None while unset, or Some(name)
    numpy2,             \* the installed NumPy promotes Python scalars weakly (NumPy >= 2)
    current_freq,       \* the oscillator's frequency (a ramp chain)
    freq_bits,          \* the significand of current_freq's type: 0 for a Python float
    target_freq,        \* the glide's target (a frequency point)
    phase,              \* the oscillator's phase, in PhaseUnits-ths of a turn
    samples_remaining,  \* ramp samples left
    last_note,          \* None, or Some(double)
    pitch_buffer,       \* deque(maxlen=SMOOTH_WINDOW) of snapped semitones
    stable_counter,
    main_pc,            \* where __main__ stands
    tanpura,            \* the drone loop plays
    flute_stream,       \* "off", "on"
    input_stream,       \* "off", "on", "aborted"
    in_pc,              \* input_callback: "idle", "l192", "l193"
    pitch,              \* input_callback's pitch estimate (None: silence)
    in_loc,             \* input_callback's median_note, freq and ramp length
    fl_pc,              \* flute_callback: "idle", "l126", "l128", "l129"
    fl_loc,             \* flute_callback's step, ramp and loaded samples_remaining
    sr_for,             \* history: the target of the commit that set samples_remaining
    fresh,              \* history: the run of equal degrees since a fresh session
    delivered,          \* history: input blocks delivered
    produced,           \* history: output blocks started
    held_run,           \* history: the run of input blocks carrying one voiced pitch
    snap_call,          \* the last direct call of snap_to_raaga
    calib_heard,        \* history: the estimates read in the calibration window
    phase_inc,          \* history: the last block's summed phase increment
    cli_process,        \* server.py: None, or Some(the Popen object's process)
    procs,              \* the CLI processes started by the server that are alive
    signalled,          \* those of them that terminate() has sent SIGTERM
    req,                \* server.py: worker thread -> the request it is handling
    requests,           \* history: requests taken up
    spawned             \* history: processes launched

scaleVars == <<RAAGA, REFERENCE_SA, CURRENT_RAAGA, numpy2>>
glideVars == <<current_freq, freq_bits, target_freq, phase, samples_remaining>>
trackVars == <<last_note, pitch_buffer, stable_counter>>
mainVars  == <<main_pc, tanpura, flute_stream, input_stream>>
inVars    == <<in_pc, pitch, in_loc>>
flVars    == <<fl_pc, fl_loc>>
counters  == <<delivered, produced, held_run>>
serverVars == <<cli_process, procs, signalled, req, requests, spawned>>
vars == <<RAAGA, REFERENCE_SA, CURRENT_RAAGA, numpy2, current_freq, freq_bits,
          target_freq, phase,
          samples_remaining, last_note, pitch_buffer, stable_counter, main_pc,
          tanpura, flute_stream, input_stream, in_pc, pitch, in_loc, fl_pc,
          fl_loc, sr_for, fresh, delivered, produced, held_run,
          snap_call, calib_heard, phase_inc,
          cli_process, procs, signalled, req, requests, spawned>>

NoInLoc == [median_note |-> FInt(0), freq |-> ZeroHz, glide |-> 0]
NoFlLoc == [step |-> 0, loaded |-> 0, sr_for |-> ZeroHz, start |-> At(ZeroHz),
            tgt |-> ZeroHz, bits |-> 0, ramp |-> At(ZeroHz)]
NoSnapCall == [s |-> 0, r |-> 0, raised |-> FALSE, called |-> FALSE]
FreshStart == [n |-> None, count |-> 0]
FreshBroken == [n |-> None, count |-> -1]

\* server.py: the worker threads that run the endpoints, and the names the
\* server accepts (line 21)
MaxWorkers == 2
Workers == 1..MaxWorkers
RAAGAS == {"bhairav", "bhairavi", "bhupali", "malkauns", "asavari"}
IdleReq == [pc |-> "idle", raag |-> "", proc |-> 0]

\* server.py as import leaves it (line 20), no request in hand
ServerGlobals ==
    /\ cli_process = None
    /\ procs = {}
    /\ signalled = {}
    /\ req = [w \in Workers |-> IdleReq]
    /\ requests = 0
    /\ spawned = 0

\* The module's globals as import leaves them (lines 43-55, 115-118, 153-155).
ModuleGlobals ==
    /\ RAAGA = BaseRaagas
    /\ REFERENCE_SA = None
    /\ CURRENT_RAAGA = None
    /\ numpy2 \in BOOLEAN
    /\ current_freq = At(ZeroHz)
    /\ freq_bits = PythonFloat
    /\ target_freq = ZeroHz
    /\ phase = 0
    /\ samples_remaining = 0
    /\ last_note = None
    /\ pitch_buffer = <<>>
    /\ stable_counter = 0
    /\ in_pc = "idle" /\ pitch = None /\ in_loc = NoInLoc
    /\ fl_pc = "idle" /\ fl_loc = NoFlLoc
    /\ sr_for = ZeroHz
    /\ fresh = FreshStart
    /\ delivered = 0
    /\ produced = 0
    /\ held_run = 0
    /\ snap_call = NoSnapCall
    /\ calib_heard = <<>>
    /\ phase_inc = 0
    /\ ServerGlobals

\* The program as `python Techsen_gen3_CLI.py -r <raag>` starts it.
Init ==
    /\ ModuleGlobals
    /\ main_pc = "start"
    /\ tanpura = FALSE
    /\ flute_stream = "off"
    /\ input_stream = "off"

\* ------------------------------------------------------------------------
\* __main__ (lines 203-233)
\* ------------------------------------------------------------------------
\* what the pitch detector may report for a calibration block, Hz
CalibHeard == {0, 50, 220}
\* the -r argument: absent (None) or a name
RaagArgs == {None, Some("bhupali"), Some("Bhupali"), Some("YAMAN")}

SeqsUpTo(S, n) == UNION {[1..m -> S] : m \in 0..n}

\* Variant of line 85 with pitch >= 50.
DetectedFrom50(estimates) == SelectSeq(estimates, LAMBDA hz : hz >= MIN_VOICED_HZ)

\* detected_pitches of detect_reference_sa: the estimates with pitch > 50
Detected(estimates) == SelectSeq(estimates, LAMBDA hz : hz > MIN_VOICED_HZ)

\* REFERENCE_SA = detect_reference_sa(): the median of the voiced estimates,
\* or ValueError, which ends the program.
Calibrate(estimates) ==
    /\ main_pc = "start"
    /\ calib_heard' = estimates
    /\ IF Detected(estimates) = <<>>
       THEN /\ main_pc' = "failed"
            /\ UNCHANGED REFERENCE_SA
       ELSE /\ REFERENCE_SA' = Some(Median2(Detected(estimates)))
            /\ main_pc' = "args"
    /\ UNCHANGED <<RAAGA, CURRENT_RAAGA, numpy2, glideVars, trackVars, tanpura,
                   flute_stream, input_stream, inVars, flVars, sr_for, fresh,
                   counters, snap_call, phase_inc, serverVars>>

\* CURRENT_RAAGA = args.raag.lower(); without -r, args.raag is None and
\* .lower() raises AttributeError.  The name is not looked up in RAAGA.
ParseArgs(raag) ==
    /\ main_pc = "args"
    /\ calib_heard' = <<>>
    /\ IF raag = None
       THEN /\ main_pc' = "failed"
            /\ UNCHANGED CURRENT_RAAGA
       ELSE /\ CURRENT_RAAGA' = Some(Lower(Val(raag)))
            /\ main_pc' = "tanpura"
    /\ UNCHANGED <<RAAGA, REFERENCE_SA, numpy2, glideVars, trackVars, tanpura,
                   flute_stream, input_stream, inVars, flVars, sr_for, fresh,
                   counters, snap_call, phase_inc, serverVars>>

\* tanpura_buf = play_tanpura(REFERENCE_SA); sd.play(tanpura_buf, loop=True)
StartTanpura ==
    /\ main_pc = "tanpura"
    /\ tanpura' = TRUE
    /\ main_pc' = "flute"
    /\ UNCHANGED <<scaleVars, glideVars, trackVars, flute_stream, input_stream,
                   inVars, flVars, sr_for, fresh, counters, snap_call, calib_heard, phase_inc, serverVars>>

\* flute_stream = sd.OutputStream(callback=flute_callback); flute_stream.start()
StartFlute ==
    /\ main_pc = "flute"
    /\ flute_stream' = "on"
    /\ main_pc' = "input"
    /\ UNCHANGED <<scaleVars, glideVars, trackVars, tanpura, input_stream,
                   inVars, flVars, sr_for, fresh, counters, snap_call, calib_heard, phase_inc, serverVars>>

\* with sd.InputStream(callback=input_callback, ...):
StartInput ==
    /\ main_pc = "input"
    /\ input_stream' = "on"
    /\ main_pc' = "running"
    /\ UNCHANGED <<scaleVars, glideVars, trackVars, tanpura, flute_stream,
                   inVars, flVars, sr_for, fresh, counters, snap_call, calib_heard, phase_inc, serverVars>>

\* KeyboardInterrupt, line 231: flute_stream.stop() returns once the output
\* callback is not running; the input stream is still open
StopFlute ==
    /\ main_pc = "running"
    /\ fl_pc = "idle"
    /\ flute_stream' = "off"
    /\ main_pc' = "l232"
    /\ UNCHANGED <<scaleVars, glideVars, trackVars, tanpura, input_stream,
                   inVars, flVars, sr_for, fresh, counters, snap_call, calib_heard, phase_inc, serverVars>>

\* line 232: sd.stop() ends the tanpura loop
StopTanpura ==
    /\ main_pc = "l232"
    /\ tanpura' = FALSE
    /\ main_pc' = "l233"
    /\ UNCHANGED <<scaleVars, glideVars, trackVars, flute_stream, input_stream,
                   inVars, flVars, sr_for, fresh, counters, snap_call, calib_heard, phase_inc, serverVars>>

\* line 233: break leaves the with block of line 220, which closes the input
\* stream once the input callback is not running
CloseInput ==
    /\ main_pc = "l233"
    /\ in_pc = "idle"
    /\ input_stream' = "off"
    /\ main_pc' = "stopped"
    /\ UNCHANGED <<scaleVars, glideVars, trackVars, tanpura, flute_stream,
                   inVars, flVars, sr_for, fresh, counters, snap_call, calib_heard, phase_inc, serverVars>>

\* A KeyboardInterrupt that lines 227-229 do not catch: raised outside the
\* try (lines 204-226, the loop's jump back) or inside the handler (lines
\* 230-233), it ends the program; on its way out of the with block of line
\* 220 the input stream is closed, and what else plays is not stopped.
Interrupted ==
    /\ main_pc \in {"start", "args", "tanpura", "flute", "input",
                    "running", "l232", "l233"}
    /\ in_pc = "idle"
    /\ input_stream' = "off"
    /\ main_pc' = "interrupted"
    /\ UNCHANGED <<scaleVars, glideVars, trackVars, tanpura, flute_stream,
                   inVars, flVars, sr_for, fresh, counters, snap_call, calib_heard, phase_inc, serverVars>>

\* ------------------------------------------------------------------------
\* input_callback (lines 157-198)
\* ------------------------------------------------------------------------
\* the history of the session's first blocks: equal degrees, uninterrupted
FreshAfter(f, snapped) ==
    IF f.count = 0 THEN [n |-> Some(snapped), count |-> 1]
    ELSE IF f.count \in 1..(HOLD_THRESHOLD - 1) /\ f.n = Some(snapped)
         THEN [f EXCEPT !.count = @ + 1]
         ELSE FreshBroken

\* The transport calls input_callback with a block, which lines 159-160
\* reduce to the pitch estimate p.  Lines 157-191 and 197-198: everything up
\* to the commit's first shared write.  stable_counter, pitch_buffer and
\* last_note are the tracker's own.
\* Variant of line 188 with > for >=.
HoldExceeded(counter) == counter > HOLD_THRESHOLD

\* line 188: if stable_counter >= HOLD_THRESHOLD
HoldReached(counter) == counter >= HOLD_THRESHOLD

InputBlock(p) ==
    /\ input_stream = "on"
    /\ in_pc = "idle"
    /\ pitch' = p
    /\ IF Skipped(p, REFERENCE_SA)
       THEN \* line 163: return
            /\ in_pc' = "idle"
            /\ fresh' = IF fresh.count = 0 THEN fresh ELSE FreshBroken
            /\ UNCHANGED <<trackVars, in_loc, input_stream>>
       ELSE IF SnapRaises(RAAGA, CURRENT_RAAGA)
       THEN \* line 167 raises out of the callback: the stream is aborted
            /\ in_pc' = "idle"
            /\ input_stream' = "aborted"
            /\ fresh' = FreshBroken
            /\ UNCHANGED <<trackVars, in_loc>>
       ELSE LET nearest == RoundHalfEven(Val(p), 100)
                snapped == snap_to_raaga(RAAGA, CURRENT_RAAGA, nearest)
                buf     == DequeAppend(pitch_buffer, snapped)
                median  == MedianNote(buf)
                trend   == Trend(buf)
                cand    == Candidate(median, trend, last_note)
            IN  /\ pitch_buffer' = buf
                /\ fresh' = FreshAfter(fresh, snapped)
                /\ UNCHANGED <<last_note, input_stream>>
                /\ IF OctaveJump(median, last_note)
                   THEN \* line 180: return
                        /\ in_pc' = "idle"
                        /\ UNCHANGED <<stable_counter, in_loc>>
                   ELSE IF Moved(cand, last_note)
                   THEN /\ stable_counter' = stable_counter + 1
                        /\ IF HoldReached(stable_counter + 1)
                           THEN /\ in_pc' = "l192"
                                /\ in_loc' = [median_note |-> cand,
                                              freq  |-> NoteHz(cand),
                                              glide |-> GlideSamples(Interval(cand, last_note))]
                           ELSE /\ in_pc' = "idle"
                                /\ UNCHANGED in_loc
                   ELSE \* line 198
                        /\ stable_counter' = 0
                        /\ in_pc' = "idle"
                        /\ UNCHANGED in_loc
    /\ UNCHANGED <<scaleVars, glideVars, main_pc, tanpura, flute_stream,
                   flVars, sr_for, snap_call, calib_heard, phase_inc, serverVars>>

\* line 192: samples_remaining = max(int(glide_time * SAMPLE_RATE), 1)
CommitRamp ==
    /\ in_pc = "l192"
    /\ samples_remaining' = in_loc.glide
    /\ sr_for' = in_loc.freq
    /\ in_pc' = "l193"
    /\ UNCHANGED <<scaleVars, current_freq, freq_bits, target_freq, phase, trackVars,
                   mainVars, pitch, in_loc, flVars, fresh, counters, snap_call, calib_heard, phase_inc, serverVars>>

\* Variant of lines 193-196 without line 196: the counter is not reset.
CommitTargetNoReset ==
    /\ in_pc = "l193"
    /\ target_freq' = in_loc.freq
    /\ last_note' = Some(in_loc.median_note)
    /\ in_pc' = "idle"
    /\ in_loc' = NoInLoc
    /\ UNCHANGED <<scaleVars, current_freq, freq_bits, phase, samples_remaining, stable_counter,
                   pitch_buffer, mainVars, pitch, flVars, sr_for, fresh,
                   counters, snap_call, calib_heard, phase_inc, serverVars>>

\* lines 193-196: target_freq = freq; last_note = median_note; stable_counter = 0
CommitTarget ==
    /\ in_pc = "l193"
    /\ target_freq' = in_loc.freq
    /\ last_note' = Some(in_loc.median_note)
    /\ stable_counter' = 0
    /\ in_pc' = "idle"
    /\ in_loc' = NoInLoc
    /\ UNCHANGED <<scaleVars, current_freq, freq_bits, phase, samples_remaining,
                   pitch_buffer, mainVars, pitch, flVars, sr_for, fresh,
                   counters, snap_call, calib_heard, phase_inc, serverVars>>

\* ------------------------------------------------------------------------
\* flute_callback (lines 120-140)
\* ------------------------------------------------------------------------
\* The phase circle [0, 2*pi) in PhaseUnits equal parts: a phase increment
\* 2 * pi * f / SAMPLE_RATE is f * 2^16 / SAMPLE_RATE parts, and f * 2^16 is
\* the frequency in units of 2^-16 Hz.
PhaseUnits == 65536

\* The sum of the phase increments of n samples held at the frequency v
\* (line 135 on freqs[:] = v), floored
HeldTurns(sa, v, n) == MulDiv(ChainHz16(sa, v), n, SAMPLE_RATE)

\* The sum of the phase increments over np.linspace(start, tgt, step,
\* endpoint=False): step * start + (tgt - start) * (step - 1) / 2 in Hz
RampTurns(sa, start, tgt, step) ==
    MulDiv(ChainHz16(sa, start), step, SAMPLE_RATE)
      + MulDiv(Hz16(sa, tgt) - ChainHz16(sa, start), step - 1, 2 * SAMPLE_RATE)

\* np.cumsum(phase_increments)[-1] of a block (lines 126-136): the ramp of
\* step samples, then frames - step samples at the ramp's last value; a
\* block without a ramp has step = 0.  Equal to the sum in reals to within
\* a few parts of PhaseUnits.
BlockTurns(sa, start, tgt, end, step, frames) ==
    IF step = 0 THEN HeldTurns(sa, end, frames)
    ELSE RampTurns(sa, start, tgt, step) + HeldTurns(sa, end, frames - step)

\* Variant of lines 136-137 that drops the carried phase: phases = cumsum(..)
PhaseAfterReset(ph, inc) == inc % PhaseUnits

\* lines 136-137: phase = (cumsum(phase_increments) + phase)[-1] % (2 * pi)
PhaseAfter(ph, inc) == (ph + inc) % PhaseUnits

\* Lines 122-125, and for samples_remaining = 0 the whole block (133-140).
FluteBlock ==
    /\ flute_stream = "on"
    /\ fl_pc = "idle"
    /\ IF samples_remaining > 0
       THEN /\ fl_loc' = [NoFlLoc EXCEPT !.step = Min(BUFFER_SIZE, samples_remaining),
                                         !.sr_for = sr_for]
            /\ fl_pc' = "l126"
            /\ UNCHANGED <<phase, phase_inc>>
       ELSE /\ phase_inc' = BlockTurns(REFERENCE_SA, current_freq, target_freq,
                                        current_freq, 0, BUFFER_SIZE)
            /\ phase' = PhaseAfter(phase, phase_inc')
            /\ UNCHANGED flVars
    /\ UNCHANGED <<scaleVars, current_freq, freq_bits, target_freq, samples_remaining,
                   trackVars, mainVars, inVars, sr_for, fresh, snap_call, calib_heard,
                   serverVars>>

\* Lines 126-127: the ramp from the current_freq and toward the target_freq
\* read now, in the type np.linspace takes from the two; its last value is
\* kept for line 128.
FluteRamp ==
    /\ fl_pc = "l126"
    /\ LET bits == RampBits(numpy2, freq_bits, TargetBits(numpy2, target_freq))
       IN  \E end \in RampEnd(REFERENCE_SA, current_freq, target_freq, fl_loc.step, bits) :
              fl_loc' = [fl_loc EXCEPT !.start = current_freq, !.tgt = target_freq,
                                       !.bits = bits, !.ramp = end]
    /\ fl_pc' = "l128"
    /\ UNCHANGED <<scaleVars, glideVars, trackVars,
                   mainVars, inVars, sr_for, fresh, counters, snap_call, calib_heard, phase_inc, serverVars>>

\* The store of line 128 (current_freq = ramp[-1]) and the load of line 129.
FluteStore ==
    /\ fl_pc = "l128"
    /\ current_freq' = fl_loc.ramp
    /\ freq_bits' = fl_loc.bits
    /\ fl_loc' = [fl_loc EXCEPT !.loaded = samples_remaining]
    /\ fl_pc' = "l129"
    /\ UNCHANGED <<scaleVars, target_freq, phase, samples_remaining, trackVars,
                   mainVars, inVars, sr_for, fresh, counters, snap_call, calib_heard, phase_inc, serverVars>>

\* The store of line 129 (samples_remaining -= step) and lines 130-140.
FluteFinish ==
    /\ fl_pc = "l129"
    /\ samples_remaining' = fl_loc.loaded - fl_loc.step
    /\ phase_inc' = BlockTurns(REFERENCE_SA, fl_loc.start, fl_loc.tgt, current_freq,
                                fl_loc.step, BUFFER_SIZE)
    /\ phase' = PhaseAfter(phase, phase_inc')
    /\ fl_pc' = "idle"
    /\ fl_loc' = NoFlLoc
    /\ UNCHANGED <<scaleVars, current_freq, freq_bits, target_freq, trackVars, mainVars,
                   inVars, sr_for, fresh, counters, snap_call, calib_heard, serverVars>>

\* ------------------------------------------------------------------------
\* The whole program
\* ------------------------------------------------------------------------
\* what the pitch detector may report for a tracked block
Heard == {Silence, Voiced(0), Voiced(400)}

\* The transport: an input block and an output block fall due once per
\* block period, on two threads.
Deliver(p) ==
    /\ delivered < MaxBlocks
    /\ delivered - produced < MaxSkew
    /\ InputBlock(p)
    /\ delivered' = delivered + 1
    /\ UNCHANGED <<produced, held_run>>

Produce ==
    /\ produced - delivered < MaxSkew
    /\ FluteBlock
    /\ produced' = produced + 1
    /\ UNCHANGED <<delivered, held_run>>

Next ==
    \/ \E est \in SeqsUpTo(CalibHeard, MaxCalibBlocks) : Calibrate(est)
    \/ \E raag \in RaagArgs : ParseArgs(raag)
    \/ StartTanpura
    \/ StartFlute
    \/ StartInput
    \/ StopFlute
    \/ Interrupted
    \/ StopTanpura
    \/ CloseInput
    \/ \E p \in Heard : Deliver(p)
    \/ CommitRamp
    \/ CommitTarget
    \/ Produce
    \/ FluteRamp
    \/ FluteStore
    \/ FluteFinish

Spec == Init /\ [][Next]_vars

\* ------------------------------------------------------------------------
\* The note tracker alone: input_callback on every pitch it can be given
\* ------------------------------------------------------------------------
\* -40 cents rounds to semitone 0 and 1640 cents to semitone 16.
TrackerHeard == {Silence, Voiced(-40), Voiced(1640)}
TrackerRaagas == {"bhupali", "malkauns"}

\* A session as __main__ leaves it when tracking starts, or the module as
\* imported, with no tonic yet (line 51), its callback already driven.
InitTrackerSession ==
    /\ RAAGA = BaseRaagas
    /\ numpy2 \in BOOLEAN
    /\ current_freq = At(ZeroHz)
    /\ freq_bits = PythonFloat
    /\ target_freq = ZeroHz
    /\ phase = 0
    /\ samples_remaining = 0
    /\ last_note = None
    /\ pitch_buffer = <<>>
    /\ stable_counter = 0
    /\ in_pc = "idle" /\ pitch = None /\ in_loc = NoInLoc
    /\ fl_pc = "idle" /\ fl_loc = NoFlLoc
    /\ sr_for = ZeroHz
    /\ fresh = FreshStart
    /\ delivered = 0
    /\ produced = 0
    /\ held_run = 0
    /\ snap_call = NoSnapCall
    /\ calib_heard = <<>>
    /\ phase_inc = 0
    /\ ServerGlobals
    /\ input_stream = "on"
    /\ \/ /\ REFERENCE_SA = Some(440)
          /\ CURRENT_RAAGA \in {Some(r) : r \in TrackerRaagas}
          /\ main_pc = "running"
          /\ tanpura = TRUE
          /\ flute_stream = "on"
       \/ /\ REFERENCE_SA = None
          /\ CURRENT_RAAGA = None
          /\ main_pc = "imported"
          /\ tanpura = FALSE
          /\ flute_stream = "off"

\* blocks of one pitch after which the window holds that pitch alone and the
\* hold of line 188 has had its HOLD_THRESHOLD blocks
HeldEnough == SMOOTH_WINDOW + HOLD_THRESHOLD

HeldAfter(h, old, p) ==
    IF p = Silence THEN 0
    ELSE IF p = old THEN Min(h + 1, HeldEnough)
    ELSE 1

Hear(p) ==
    /\ InputBlock(p)
    /\ held_run' = HeldAfter(held_run, pitch, p)
    /\ UNCHANGED <<delivered, produced>>

NextTracker ==
    \/ \E p \in TrackerHeard : Hear(p)
    \/ CommitRamp
    \/ CommitTarget

SpecTracker == InitTrackerSession /\ [][NextTracker]_vars

\* ------------------------------------------------------------------------
\* The scale model alone: add_raaga and snap_to_raaga on the imported module
\* ------------------------------------------------------------------------
\* names and swara lists handed to add_raaga; "Xx" is not a swara
RaagaNames == {"Durga", "bhupali"}
SwaraLists == {<<>>, <<"Sa">>, <<"Sa", "Re_hi">>, <<"Ma", "Xx", "Sa'">>}
\* the raaga the session was started with
SnapRaagas == {"malkauns", "bhupali", "durga"}
\* semitones handed to snap_to_raaga
SnapInputs == -13..12

InitSnap ==
    /\ RAAGA = BaseRaagas
    /\ REFERENCE_SA = None
    /\ CURRENT_RAAGA \in {Some(r) : r \in SnapRaagas}
    /\ numpy2 \in BOOLEAN
    /\ current_freq = At(ZeroHz)
    /\ freq_bits = PythonFloat
    /\ target_freq = ZeroHz
    /\ phase = 0
    /\ samples_remaining = 0
    /\ last_note = None
    /\ pitch_buffer = <<>>
    /\ stable_counter = 0
    /\ in_pc = "idle" /\ pitch = None /\ in_loc = NoInLoc
    /\ fl_pc = "idle" /\ fl_loc = NoFlLoc
    /\ sr_for = ZeroHz
    /\ fresh = FreshStart
    /\ delivered = 0
    /\ produced = 0
    /\ held_run = 0
    /\ snap_call = NoSnapCall
    /\ calib_heard = <<>>
    /\ phase_inc = 0
    /\ ServerGlobals
    /\ main_pc = "imported"
    /\ tanpura = FALSE
    /\ flute_stream = "off"
    /\ input_stream = "off"

\* add_raaga (lines 60-62): RAAGA[name.lower()] = [swara_to_semitone(s) ...]
add_raaga(name, swaras) ==
    /\ RAAGA' = (Lower(name) :> Semitones(swaras)) @@ RAAGA
    /\ UNCHANGED <<REFERENCE_SA, CURRENT_RAAGA, numpy2, glideVars, trackVars, mainVars,
                   inVars, flVars, sr_for, fresh, counters, snap_call, calib_heard, phase_inc, serverVars>>

\* a call snap_to_raaga(semitone) (lines 145-148) and what it returned
CallSnap(semitone) ==
    /\ snap_call' =
          IF SnapRaises(RAAGA, CURRENT_RAAGA)
          THEN [s |-> semitone, r |-> 0, raised |-> TRUE, called |-> TRUE]
          ELSE [s |-> semitone, r |-> snap_to_raaga(RAAGA, CURRENT_RAAGA, semitone),
                raised |-> FALSE, called |-> TRUE]
    /\ UNCHANGED <<scaleVars, glideVars, trackVars, mainVars, inVars, flVars,
                   sr_for, fresh, counters, calib_heard, phase_inc, serverVars>>

NextSnap ==
    \/ \E name \in RaagaNames, swaras \in SwaraLists : add_raaga(name, swaras)
    \/ \E semitone \in SnapInputs : CallSnap(semitone)

SpecSnap == InitSnap /\ [][NextSnap]_vars

\* ------------------------------------------------------------------------
\* Calibration alone: detect_reference_sa on every window it can read
\* ------------------------------------------------------------------------
\* what the pitch detector may report for a calibration block, Hz
WindowHeard == {0, 50, 51, 110, 220}
\* blocks read before the calibration window closes
MaxWindow == 4

NextCalib ==
    \E est \in SeqsUpTo(WindowHeard, MaxWindow) : Calibrate(est)

SpecCalib == Init /\ [][NextCalib]_vars

\* ------------------------------------------------------------------------
\* server.py: start_cli and stop_cli on the worker threads
\* ------------------------------------------------------------------------
MaxRequests == 5
\* the raag parameter of /start_cli: a listed name and an unlisted one
RaagParams == {"bhupali", "yaman"}

\* the state of the CLI module, which no endpoint touches
cliVars == <<scaleVars, glideVars, trackVars, mainVars, inVars, flVars, sr_for,
             fresh, counters, snap_call, calib_heard, phase_inc>>

\* lines 37-40 of start_cli: the two early returns, else on to the launch
StartCheck(w, raag) ==
    /\ req[w].pc = "idle"
    /\ requests < MaxRequests
    /\ requests' = requests + 1
    /\ IF cli_process # None
       THEN \* line 38: "Already running"
            UNCHANGED req
       ELSE IF raag \notin RAAGAS
       THEN \* line 40: status 400
            UNCHANGED req
       ELSE req' = [req EXCEPT ![w] = [pc |-> "l44", raag |-> raag, proc |-> 0]]
    /\ UNCHANGED <<cli_process, procs, signalled, spawned, cliVars>>

\* line 44, the call: subprocess.Popen launches the process and returns its
\* object, or raises and the request answers 500 (lines 46-47)
StartPopen(w) ==
    /\ req[w].pc = "l44"
    /\ \E launched \in BOOLEAN :
          IF launched
          THEN /\ spawned' = spawned + 1
               /\ procs' = procs \cup {spawned + 1}
               /\ req' = [req EXCEPT ![w] = [@ EXCEPT !.pc = "l44_store",
                                                      !.proc = spawned + 1]]
          ELSE /\ req' = [req EXCEPT ![w] = IdleReq]
               /\ UNCHANGED <<procs, spawned>>
    /\ UNCHANGED <<cli_process, signalled, requests, cliVars>>

\* line 44, the store: cli_process = <the object Popen returned>; line 45
StartStore(w) ==
    /\ req[w].pc = "l44_store"
    /\ cli_process' = Some(req[w].proc)
    /\ req' = [req EXCEPT ![w] = IdleReq]
    /\ UNCHANGED <<procs, signalled, requests, spawned, cliVars>>

\* line 53 of stop_cli, and line 57 when nothing is tracked
StopCheck(w) ==
    /\ req[w].pc = "idle"
    /\ requests < MaxRequests
    /\ requests' = requests + 1
    /\ IF cli_process # None
       THEN req' = [req EXCEPT ![w] = [pc |-> "l54", raag |-> "", proc |-> 0]]
       ELSE UNCHANGED req
    /\ UNCHANGED <<cli_process, procs, signalled, spawned, cliVars>>

\* line 54: cli_process.terminate() sends SIGTERM to the process tracked now,
\* if it is alive, and returns without waiting for its end; when another
\* request has set cli_process to None meanwhile, the call raises
StopTerminate(w) ==
    /\ req[w].pc = "l54"
    /\ IF cli_process = None
       THEN /\ req' = [req EXCEPT ![w] = IdleReq]
            /\ UNCHANGED signalled
       ELSE /\ signalled' = signalled \cup ({Val(cli_process)} \cap procs)
            /\ req' = [req EXCEPT ![w] = [@ EXCEPT !.pc = "l55"]]
    /\ UNCHANGED <<cli_process, procs, requests, spawned, cliVars>>

\* lines 55-56: cli_process = None
StopForget(w) ==
    /\ req[w].pc = "l55"
    /\ cli_process' = None
    /\ req' = [req EXCEPT ![w] = IdleReq]
    /\ UNCHANGED <<procs, signalled, requests, spawned, cliVars>>

\* a launched CLI ends: by itself (the raise of line 89, Ctrl+C, a crash) or
\* on the SIGTERM it was sent; the server keeps the Popen object
CliExits ==
    /\ \E pid \in procs :
          /\ procs' = procs \ {pid}
          /\ signalled' = signalled \ {pid}
    /\ UNCHANGED <<cli_process, req, requests, spawned, cliVars>>

NextServer ==
    \/ \E w \in Workers, raag \in RaagParams : StartCheck(w, raag)
    \/ \E w \in Workers : StartPopen(w)
    \/ \E w \in Workers : StartStore(w)
    \/ \E w \in Workers : StopCheck(w)
    \/ \E w \in Workers : StopTerminate(w)
    \/ \E w \in Workers : StopForget(w)
    \/ CliExits

SpecServer == Init /\ [][NextServer]_vars

\* ------------------------------------------------------------------------
\* Properties
\* ------------------------------------------------------------------------
\* C1: a commit's writes reach the synthesizer as a whole: whenever
\* flute_callback has computed a block's ramp, the samples_remaining it read
\* and the target_freq it ramped toward were written by the same commit.
C1_CommitSeenWhole ==
    fl_pc \in {"l128", "l129"} => fl_loc.sr_for = fl_loc.tgt

\* C2: once the ramp of a completed commit has been played out
\* (samples_remaining back to 0, both callbacks at rest), the oscillator
\* holds the commit's target frequency.
C2_RampEndsOnTarget ==
    (/\ last_note # None
     /\ in_pc = "idle"
     /\ fl_pc = "idle"
     /\ sr_for = target_freq
     /\ samples_remaining = 0)
    => current_freq = At(target_freq)

\* C10: the drone, the output stream and the input callback run only with
\* a registered CURRENT_RAAGA.
C10_NoCallbacksWithUnknownRaaga ==
    (tanpura \/ flute_stream = "on" \/ input_stream = "on")
    => (CURRENT_RAAGA # None /\ Val(CURRENT_RAAGA) \in DOMAIN RAAGA)

\* the offsets of the active raaga, as a set
ActiveOffsets == {RAAGA[Val(CURRENT_RAAGA)][i] : i \in DOMAIN RAAGA[Val(CURRENT_RAAGA)]}

\* C3: a committed note is a whole semitone n whose offset n mod 12 is a
\* permitted degree of the active raaga, and target_freq is that note's
\* frequency tonic * 2^(n/12).
C3_CommitsRaagaDegree ==
    last_note # None =>
        /\ Val(last_note).k % 5 = 0
        /\ Val(last_note).d = 0
        /\ ((Val(last_note).k \div 5) % 12) \in ActiveOffsets
        /\ target_freq = NoteHz(Val(last_note))

\* C4: the value r that snap_to_raaga(s) returns under a registered raaga
\* has r mod 12 among the raaga's offsets and |r - s| <= 6.
C4_SnapNearDegree ==
    (/\ snap_call.called
     /\ ~snap_call.raised
     /\ CURRENT_RAAGA # None
     /\ Val(CURRENT_RAAGA) \in DOMAIN RAAGA)
    => /\ (snap_call.r % 12) \in ActiveOffsets
       /\ Abs(snap_call.r - snap_call.s) <= 6

\* C5: in a fresh session, blocks 1 to 3 of a run of equal snapped degrees
\* n commit nothing, and the 4th commits n: last_note = n, target_freq =
\* tonic * 2^(n/12), stable_counter = 0.
C5_FourthBlockCommits ==
    /\ fresh.count \in 1..3 =>
          /\ in_pc = "idle"
          /\ last_note = None
          /\ target_freq = ZeroHz
          /\ samples_remaining = 0
          /\ stable_counter = fresh.count
    /\ fresh.count = 4 =>
          \/ in_pc \in {"l192", "l193"} /\ in_loc.median_note = FInt(Val(fresh.n))
          \/ /\ in_pc = "idle"
             /\ last_note = Some(FInt(Val(fresh.n)))
             /\ target_freq = NoteHz(FInt(Val(fresh.n)))
             /\ stable_counter = 0

\* C5 witness: the 4th block of a fresh run on degree 16 has committed.
C5_Witness ==
    fresh.count = 4 /\ in_pc = "idle" /\ last_note = Some(FInt(16))

\* C6 as stated: the micro-bias never reaches the committed pitch, so
\* last_note is integer-valued in every reachable state.
C6_LastNoteInteger ==
    last_note # None => (Val(last_note).k % 5 = 0 /\ Val(last_note).d = 0)

\* C7: a processed block whose median is more than 12 semitones from the
\* last committed note leaves last_note, target_freq, samples_remaining and
\* stable_counter unchanged and commits nothing.
C7_OctaveGuardDiscards ==
    [][(/\ in_pc = "idle"
        /\ ~(pitch' = Silence)
        /\ REFERENCE_SA # None
        /\ last_note # None
        /\ Abs(5 * MedianNote(pitch_buffer') - Val(last_note).k) > 5 * 12) =>
          /\ last_note' = last_note
          /\ target_freq' = target_freq
          /\ samples_remaining' = samples_remaining
          /\ stable_counter' = stable_counter
          /\ in_pc' = "idle"]_vars

\* C7 witness: a block was discarded by the guard while the stability
\* counter was running.
C7_Witness ==
    /\ in_pc = "idle"
    /\ pitch # Silence
    /\ last_note # None
    /\ Abs(5 * MedianNote(pitch_buffer) - Val(last_note).k) > 5 * 12
    /\ stable_counter > 0

\* C8: a block with a non-positive pitch estimate, or one arriving while no
\* tonic is set, is ignored: pitch_buffer, last_note, stable_counter,
\* target_freq, samples_remaining, current_freq and phase are unchanged,
\* no commit starts and the stream stays up.
C8_SkippedBlockMutatesNothing ==
    [][(in_pc = "idle" /\ (pitch' = Silence \/ REFERENCE_SA = None)) =>
          /\ pitch_buffer' = pitch_buffer
          /\ last_note' = last_note
          /\ stable_counter' = stable_counter
          /\ target_freq' = target_freq
          /\ samples_remaining' = samples_remaining
          /\ current_freq' = current_freq
          /\ phase' = phase
          /\ in_pc' = "idle"
          /\ input_stream' = input_stream]_vars

\* C8 witness: a silent block arrived in a session that has a committed
\* note and a running stability counter.
C8_Witness ==
    /\ pitch = Silence
    /\ in_pc = "idle"
    /\ last_note # None
    /\ stable_counter > 0

\* the exact interval of the commit in progress, in fifths of a semitone
CommitFifths ==
    IF last_note = None THEN Abs(in_loc.median_note.k)
    ELSE Abs(in_loc.median_note.k - Val(last_note).k)

\* C9 as stated: samples_remaining = max(1, round(0.08 * max(1, k) * 44100))
C9_GlideSamplesRound ==
    [][(in_pc = "l192" /\ in_pc' = "l193") =>
          samples_remaining' =
              Max(1, RoundHalfEven(MEEND_SAMPLES_PER_SEMITONE * Max(5, CommitFifths), 5))]_vars

\* the positions of calib_heard that hold an estimate above 50 Hz
VoicedAt == {i \in DOMAIN calib_heard : calib_heard[i] > 50}

\* a is the k-th smallest of the estimates above 50 Hz
KthVoiced(k, a) ==
    /\ Cardinality({i \in VoicedAt : calib_heard[i] < a}) <= k - 1
    /\ Cardinality({i \in VoicedAt : calib_heard[i] <= a}) >= k

\* C11: calibration fails exactly when no estimate of the window is above
\* 50 Hz, and otherwise the tonic is the median of the estimates above
\* 50 Hz alone: the middle one, or the mean of the two middle ones.
C11_CalibrationMedian ==
    main_pc # "start" =>
        LET n == Cardinality(VoicedAt)
        IN  /\ (main_pc = "failed") <=> (n = 0)
            /\ main_pc = "failed" => REFERENCE_SA = None
            /\ main_pc # "failed" =>
                  /\ REFERENCE_SA # None
                  /\ \E i, j \in VoicedAt :
                        /\ KthVoiced((n + 1) \div 2, calib_heard[i])
                        /\ KthVoiced(n \div 2 + 1, calib_heard[j])
                        /\ Val(REFERENCE_SA) = calib_heard[i] + calib_heard[j]

\* C11 witness: a window of four blocks, two of them at or below 50 Hz,
\* calibrated to the mean of the two voiced estimates.
C11_Witness ==
    /\ main_pc = "args"
    /\ Len(calib_heard) = 4
    /\ Cardinality(VoicedAt) = 2
    /\ \E i \in DOMAIN calib_heard : calib_heard[i] = 50
    /\ Val(REFERENCE_SA) = 110 + 220

\* s without its i-th element
RemoveAt(s, i) == SubSeq(s, 1, i - 1) \o SubSeq(s, i + 1, Len(s))

\* new lies between old and T: the gap to T kept its sign and was divided by
\* one more factor of at least 2, or new is T itself, met by rounding.
MovedToward(old, new, T) ==
    \/ /\ RampBase(new, T) = RampBase(old, T)
       /\ \E i \in DOMAIN RampDivs(new, T) :
             /\ RampDivs(new, T)[i] >= 2
             /\ RemoveAt(RampDivs(new, T), i) = RampDivs(old, T)
    \/ new = At(T)

\* C12: every block that ramps reads current_freq and target_freq at line
\* 126 and stores at line 128 a frequency between the two, on the side of
\* the frequency it read and never past the target (the frequency itself
\* only for a ramp of one sample or at the target); no other step writes
\* current_freq, and a block that starts with samples_remaining = 0 holds
\* it constant.
C12_MonotonicTowardTarget ==
    [][/\ (fl_pc = "l126" /\ fl_pc' = "l128") =>
             (fl_loc'.start = current_freq /\ fl_loc'.tgt = target_freq)
       /\ (fl_pc = "l128" /\ fl_pc' = "l129") =>
             /\ fl_loc.start = current_freq
             /\ \/ /\ current_freq' = current_freq
                   /\ fl_loc.step = 1 \/ current_freq = At(fl_loc.tgt)
                \/ MovedToward(current_freq, current_freq', fl_loc.tgt)
       /\ ~(fl_pc = "l128" /\ fl_pc' = "l129") => current_freq' = current_freq
       /\ (produced' # produced /\ samples_remaining = 0) =>
             /\ current_freq' = current_freq
             /\ fl_pc' = "idle"]_vars

\* C12 witness: the second block of a ramp has stored a frequency nearer to
\* the target it read than the first did.
C12_Witness ==
    /\ fl_pc = "l129"
    /\ current_freq = fl_loc.ramp
    /\ Len(RampDivs(current_freq, fl_loc.tgt)) >= 2
    /\ RampBase(current_freq, fl_loc.tgt) = RampBase(fl_loc.start, fl_loc.tgt)

\* a step that completes an output block
BlockCompletes ==
    \/ fl_pc = "idle" /\ produced' # produced /\ fl_pc' = "idle"
    \/ fl_pc = "l129" /\ fl_pc' = "idle"

\* C13: the phase is carried from block to block and never reset: a
\* completed block leaves the phase before it plus the sum of the block's
\* increments 2*pi*f/SAMPLE_RATE over its frequencies (the ramp read at line
\* 126, then the frequency held), less whole turns, within [0, 2*pi);
\* nothing else writes it.
C13_PhaseCarried ==
    [][/\ phase' \in 0..(PhaseUnits - 1)
       /\ (fl_pc = "idle" /\ produced' # produced /\ fl_pc' = "idle") =>
             (phase + MulDiv(ChainHz16(REFERENCE_SA, current_freq),
                             BUFFER_SIZE, SAMPLE_RATE)
                - phase') % PhaseUnits = 0
       /\ (fl_pc = "l129" /\ fl_pc' = "idle") =>
             (phase
                + MulDiv(ChainHz16(REFERENCE_SA, fl_loc.start),
                         fl_loc.step, SAMPLE_RATE)
                + MulDiv(Hz16(REFERENCE_SA, fl_loc.tgt)
                           - ChainHz16(REFERENCE_SA, fl_loc.start),
                         fl_loc.step - 1, 2 * SAMPLE_RATE)
                + MulDiv(ChainHz16(REFERENCE_SA, current_freq),
                         BUFFER_SIZE - fl_loc.step, SAMPLE_RATE)
                - phase') % PhaseUnits = 0
       /\ ~BlockCompletes => phase' = phase]_vars

\* C13 witness: the block that ended a ramp went through whole turns and
\* left a phase that is not the block's increment alone.
C13_Witness ==
    /\ fl_pc = "idle"
    /\ Len(current_freq) > 1
    /\ samples_remaining = 0
    /\ phase_inc >= PhaseUnits
    /\ phase # phase_inc % PhaseUnits

\* C14: after any sequence of add_raaga registrations every raaga of the
\* table has at least one offset (an empty registration is not stored).
C14_EveryRaagaHasOffsets ==
    \A name \in DOMAIN RAAGA : Len(RAAGA[name]) >= 1

\* a is the k-th smallest entry of buf
KthOf(buf, k, a) ==
    /\ Cardinality({i \in DOMAIN buf : buf[i] < a}) <= k - 1
    /\ Cardinality({i \in DOMAIN buf : buf[i] <= a}) >= k

\* twice the median of a non-empty buf: the sum of its two middle entries
\* (the middle entry counted twice when the length is odd)
TwiceMedianOf(buf) ==
    CHOOSE t \in {buf[i] + buf[j] : i, j \in DOMAIN buf} :
        \E i, j \in DOMAIN buf :
            /\ KthOf(buf, (Len(buf) + 1) \div 2, buf[i])
            /\ KthOf(buf, Len(buf) \div 2 + 1, buf[j])
            /\ t = buf[i] + buf[j]

\* the step is input_callback handling a voiced block of a calibrated
\* session: no step of the main thread or of flute_callback
BlockProcessed ==
    /\ in_pc = "idle"
    /\ input_stream = "on"
    /\ UNCHANGED <<main_pc, fl_pc, produced>>
    /\ pitch' # Silence
    /\ REFERENCE_SA # None
    /\ pitch_buffer' # <<>>
    /\ input_stream' = "on"

\* C15 as stated: the candidate a commit takes from a processed block is
\* the median of pitch_buffer, the mean of the two middle values when the
\* number of entries is even.
C15_CandidateIsMedian ==
    [][(BlockProcessed /\ in_pc' = "l192") =>
          /\ 2 * in_loc'.median_note.k = 5 * TwiceMedianOf(pitch_buffer')
          /\ in_loc'.median_note.d = 0]_vars

\* C15 amended: pitch_buffer holds the last min(n, 6) snapped values in
\* arrival order; the candidate of the octave-jump guard is the median of
\* pitch_buffer (the mean of the two middle values for an even count)
\* truncated to an integer, and the candidate of the hysteresis and of the
\* commit is that integer plus trend * 0.2 when a last note exists.
C15_CandidateIsTruncatedMedian ==
    [][BlockProcessed =>
          LET twice == TwiceMedianOf(pitch_buffer')
              m     == IF twice >= 0 THEN twice \div 2 ELSE -((-twice) \div 2)
              n     == Len(pitch_buffer')
              first == pitch_buffer'[1]
              final == pitch_buffer'[n]
              bias  == IF last_note = None \/ n < 3 THEN 0
                       ELSE IF final > first THEN 1
                       ELSE IF final < first THEN -1 ELSE 0
              far   == last_note # None /\ Abs(5 * m - Val(last_note).k) > 5 * 12
              away  == last_note = None \/ Abs(5 * m + bias - Val(last_note).k) >= 2
          IN  /\ n = Min(Len(pitch_buffer) + 1, 6)
              /\ \A i \in 1..(n - 1) :
                    pitch_buffer'[i] = pitch_buffer[Len(pitch_buffer) + 1 - n + i]
              /\ far => (stable_counter' = stable_counter /\ in_pc' = "idle")
              /\ (~far /\ away) =>
                    \/ in_pc' = "idle" /\ stable_counter' = stable_counter + 1
                    \/ in_pc' = "l192" /\ in_loc'.median_note.k = 5 * m + bias]_vars

\* C15 witness: a commit is under way whose candidate is below the median
\* of an even number of entries.
C15_Witness ==
    /\ in_pc = "l192"
    /\ Len(pitch_buffer) % 2 = 0
    /\ TwiceMedianOf(pitch_buffer) % 2 = 1
    /\ 2 * in_loc.median_note.k < 5 * TwiceMedianOf(pitch_buffer)

\* C16 as stated: every input block either counts toward the commit or
\* resets stable_counter to 0, so that the 4 counted blocks of a commit are
\* consecutive input blocks.
C16_EveryBlockCountsOrResets ==
    [][in_pc = "idle" =>
          stable_counter' = stable_counter + 1 \/ stable_counter' = 0]_vars

\* C16 amended: a processed block that passes the octave guard and
\* qualifies (no last note, or |candidate - last_note| > 0.2 as line 186
\* compares the doubles) increments stable_counter, and the block that
\* brings it to 4 commits; every other processed block that passes the
\* octave guard resets it to 0; skipped, aborted and octave-guarded blocks
\* leave it as it is; the commit resets it to 0.
C16_CommitOnFourthQualifying ==
    [][LET m     == MedianNote(pitch_buffer')
           n     == Len(pitch_buffer')
           bias  == IF last_note = None \/ n < 3 THEN 0
                    ELSE Sign(pitch_buffer'[n] - pitch_buffer'[1])
           cand  == IF bias = 0 THEN FInt(m) ELSE FAdd(FInt(m), FBias(bias))
           far   == /\ last_note # None
                    /\ FGt(FAbs(FSub(FInt(m), Val(last_note))), FInt(OCTAVE_JUMP))
           quals == \/ last_note = None
                    \/ FGt(FAbs(FSub(cand, Val(last_note))), F02)
       IN  /\ (BlockProcessed /\ ~far /\ quals) =>
                 /\ stable_counter' = stable_counter + 1
                 /\ stable_counter' < HOLD_THRESHOLD => in_pc' = "idle"
                 /\ stable_counter' = HOLD_THRESHOLD => in_pc' = "l192"
           /\ (BlockProcessed /\ ~far /\ ~quals) =>
                 (stable_counter' = 0 /\ in_pc' = "idle")
           /\ (BlockProcessed /\ far) =>
                 (stable_counter' = stable_counter /\ in_pc' = "idle")
           /\ (in_pc = "idle" /\ ~BlockProcessed) =>
                 (stable_counter' = stable_counter /\ in_pc' = "idle")
           /\ (in_pc = "idle" /\ in_pc' = "l192") =>
                 /\ BlockProcessed /\ ~far /\ quals
                 /\ stable_counter = HOLD_THRESHOLD - 1
                 /\ stable_counter' = HOLD_THRESHOLD
           /\ (in_pc = "l193" /\ in_pc' = "idle") => stable_counter' = 0]_vars

\* C16 witness: a fourth qualifying block has brought the count to 4 and
\* the commit of a second note is under way.
C16_Witness ==
    /\ in_pc = "l192"
    /\ stable_counter = 4
    /\ last_note # None

\* C17: the tracker does not stay on a stale note while one voiced pitch
\* is held.  After SMOOTH_WINDOW blocks of one pitch the window holds its
\* snapped semitone n alone, and HOLD_THRESHOLD more blocks are the hold of
\* a commit: once that many blocks of the pitch have been handled,
\* last_note is within 0.2 of n.
C17_HeldNoteIsCommitted ==
    (/\ in_pc = "idle"
     /\ REFERENCE_SA # None
     /\ held_run = HeldEnough) =>
        /\ last_note # None
        /\ Abs(Val(last_note).k - 5 * pitch_buffer[Len(pitch_buffer)]) <= 1

\* C18: a commit's ramp count is never lost: whatever the interleaving, the
\* store of samples_remaining -= step (line 129) leaves the count as it
\* stood just before the store, a commit's N included, less the step.
C18_DecrementKeepsCommit ==
    [][(fl_pc = "l129" /\ fl_pc' = "idle") =>
          samples_remaining' = samples_remaining - fl_loc.step]_vars

\* C19: whatever the sequence and interleaving of start_cli and stop_cli
\* requests, at most one CLI process started by the server is alive.
C19_AtMostOneCli == Cardinality(procs) <= 1

\* C20: between two invocations of input_callback stable_counter lies in
\* 0 .. HOLD_THRESHOLD - 1, whatever voiced, silent and octave-guarded
\* blocks came before.
C20_CounterBelowThreshold ==
    in_pc = "idle" => stable_counter \in 0..(HOLD_THRESHOLD - 1)

\* C20 witness: the counter stands at HOLD_THRESHOLD - 1 after a commit, and
\* the last block was discarded by the octave guard.
C20_Witness ==
    /\ in_pc = "idle"
    /\ stable_counter = HOLD_THRESHOLD - 1
    /\ last_note # None
    /\ pitch # Silence
    /\ Abs(5 * MedianNote(pitch_buffer) - Val(last_note).k) > 5 * 12

=============================================================================
